---- MODULE Spec2Model ----
(***************************************************************************)
(* A model of linker.py (fortuna-events/z-app-linker): the Link entity,    *)
(* the linking pass (link_all_apps), the two resolution modes of           *)
(* resolve_all_apps, and the short-URL registry they drive.                *)
(*                                                                         *)
(* The state machine Spec is the pair of calls link_all_apps(apps);        *)
(* resolve_all_apps(apps, fast, quiet) on a list of Links built with       *)
(* Link.__init__.  The command line does not get that far: __main raises   *)
(* NameError while it builds its argument parser (SpecMain), and           *)
(* parse_data_file raises it on the first header line (guess_app).         *)
(*                                                                         *)
(* Text is a sequence of one-character strings.  The string "U+E9" stands  *)
(* for the single non-ASCII character U+00E9.  A Link holds its            *)
(* dependencies as positions in the apps list (Python holds references to  *)
(* the same objects).                                                      *)
(***************************************************************************)
EXTENDS Integers, Sequences, FiniteSets, TLC

VARIABLES apps, fast, quiet, codes, registry, calls, pc, idx, err

vars == <<apps, fast, quiet, codes, registry, calls, pc, idx, err>>

(***************************************************************************)
(* Bounds of the model.                                                    *)
(***************************************************************************)
\* the largest number of Links in the list
MaxNodes == 2
\* the largest total number of characters of raw text in the list
MaxText == 3

(***************************************************************************)
(* Values.                                                                 *)
(***************************************************************************)
\* Python's None (the value of Link.link before the first registry call)
None == <<"None">>

\* the characters raw text is made of: the names' letters and a non-ASCII one
Chars == {"A", "B", "U+E9"}

\* the link_name given to the i-th Link of the list
NameOf(i) == <<<<"A">>, <<"B">>, <<"C">>, <<"D">>>>[i]

\* two of the destinations of the __APPS table
AppUris == {<<"https://app.fortuna-events.fr">>, <<"https://quest.fortuna-events.fr">>}

\* the app given to each Link of the list: all the same, or the first
\* one apart
AppAssignments ==
    { [i \in 1..4 |-> <<"https://app.fortuna-events.fr">>],
      [i \in 1..4 |-> IF i = 1 THEN <<"https://quest.fortuna-events.fr">>
                               ELSE <<"https://app.fortuna-events.fr">>] }

\* the short codes the registry hands out, in the order it hands them out
CodeOrders == { <<"x", "y", "z", "w">>, <<"B", "A", "y", "x">> }

\* all texts of exactly k characters, and of at most k characters
TextsOfLen(k) == [1..k -> Chars]
TextsUpTo(k) == UNION { TextsOfLen(j) : j \in 0..k }

\* the data of n Links, their raw texts totalling at most budget characters
RECURSIVE Docs(_, _)
Docs(n, budget) ==
    IF n = 0 THEN { <<>> }
    ELSE UNION { { Append(d, t) : d \in Docs(n - 1, budget - Len(t)) } :
                 t \in TextsUpTo(budget) }

(***************************************************************************)
(* Python string operations.                                               *)
(***************************************************************************)
\* s[k:].startswith(p), k counted from 1
StartsAt(s, p, k) ==
    /\ k + Len(p) - 1 <= Len(s)
    /\ \A j \in 1..Len(p) : s[k + j - 1] = p[j]

\* p in s
Contains(s, p) == \E k \in 1..(Len(s) - Len(p) + 1) : StartsAt(s, p, k)

RECURSIVE ReplaceFrom(_, _, _, _)
ReplaceFrom(s, old, new, k) ==
    IF k > Len(s) THEN <<>>
    ELSE IF StartsAt(s, old, k)
         THEN new \o ReplaceFrom(s, old, new, k + Len(old))
         ELSE <<s[k]>> \o ReplaceFrom(s, old, new, k + 1)

RECURSIVE Interleave(_, _, _)
Interleave(s, new, k) ==
    IF k > Len(s) THEN new ELSE new \o <<s[k]>> \o Interleave(s, new, k + 1)

\* s.replace(old, new): every non-overlapping occurrence, leftmost first
Replace(s, old, new) ==
    IF old = <<>> THEN Interleave(s, new, 1) ELSE ReplaceFrom(s, old, new, 1)

RECURSIVE Reverse(_)
\* s[::-1]
Reverse(s) == IF s = <<>> THEN <<>> ELSE Reverse(Tail(s)) \o <<Head(s)>>

RECURSIVE LastSegmentFrom(_, _)
LastSegmentFrom(s, k) ==
    IF k = 0 \/ s[k] = "/" THEN SubSeq(s, k + 1, Len(s))
    ELSE LastSegmentFrom(s, k - 1)

\* s.split("/")[-1]
LastSegment(s) == LastSegmentFrom(s, Len(s))

RECURSIVE XmlCharRefReplace(_)
\* s.encode("ascii", "xmlcharrefreplace").decode("utf-8")
XmlCharRefReplace(s) ==
    IF s = <<>> THEN <<>>
    ELSE (IF Head(s) = "U+E9" THEN <<"&", "#", "2", "3", "3", ";">> ELSE <<Head(s)>>)
         \o XmlCharRefReplace(Tail(s))

(***************************************************************************)
(* Link                                                                    *)
(***************************************************************************)
\* Link.__init__
NewLink(app, link_name, data) ==
    [ app |-> app, link_name |-> link_name, data |-> data,
      dependencies |-> <<>>, link |-> None, resolved |-> FALSE ]

RECURSIVE Matching(_, _, _)
\* the positions j >= k of others whose link_name occurs in data, in order
Matching(data, others, k) ==
    IF k > Len(others) THEN <<>>
    ELSE (IF Contains(data, others[k].link_name) THEN <<k>> ELSE <<>>)
         \o Matching(data, others, k + 1)

\* a variant that looks only at the fragments created before this one
link_dependencies_earlier(self, others, me) ==
    [ self EXCEPT !.dependencies =
        @ \o SelectSeq(Matching(self.data, others, 1), LAMBDA j : j < me) ]

\* Link.link_dependencies; me is the position of self in others
link_dependencies(self, others, me) ==
    [ self EXCEPT !.dependencies = @ \o Matching(self.data, others, 1) ]

(***************************************************************************)
(* custom_link                                                             *)
(***************************************************************************)
\* ord(c) for the characters of the model's texts
ord(c) ==
    CASE c = "A" -> 65 [] c = "B" -> 66 [] c = "C" -> 67 [] c = "D" -> 68
      [] c = "x" -> 120 [] c = "y" -> 121 [] c = "z" -> 122 [] c = "w" -> 119
      [] c = "s" -> 115 [] c = "/" -> 47 [] c = "&" -> 38 [] c = "#" -> 35
      [] c = "2" -> 50 [] c = "3" -> 51 [] c = ";" -> 59 [] c = "U+E9" -> 233

\* LZString's keyStrBase64, without its last character "="
keyStrBase64 ==
    <<"A", "B", "C", "D", "E", "F", "G", "H", "I", "J", "K", "L", "M", "N", "O", "P",
      "Q", "R", "S", "T", "U", "V", "W", "X", "Y", "Z", "a", "b", "c", "d", "e", "f",
      "g", "h", "i", "j", "k", "l", "m", "n", "o", "p", "q", "r", "s", "t", "u", "v",
      "w", "x", "y", "z", "0", "1", "2", "3", "4", "5", "6", "7", "8", "9", "+", "/">>

\* the n lowest bits of value, lowest first: the order LZString writes them
BitsLowFirst(value, n) == [ i \in 1..n |-> (value \div (2 ^ (i - 1))) % 2 ]

\* LZString._compress, its context at the start: dictionary and
\* dictionaryToCreate empty, w empty, no bit written
compress_context ==
    [ dictionary |-> <<>>, dictionaryToCreate |-> {}, w |-> <<>>,
      enlargeIn |-> 2, dictSize |-> 3, numBits |-> 2, data |-> <<>> ]

\* LZString._compress: enlargeIn is decremented, and the codes get one bit
\* wider when it reaches 0
compress_enlarge(ctx) ==
    IF ctx.enlargeIn = 1
    THEN [ ctx EXCEPT !.enlargeIn = 2 ^ ctx.numBits, !.numBits = @ + 1 ]
    ELSE [ ctx EXCEPT !.enlargeIn = @ - 1 ]

\* LZString._compress: the code for w is written: a new character as a
\* marker and its 8 (or 16) bits, a known entry as its dictionary number
compress_output(ctx) ==
    IF ctx.w \in ctx.dictionaryToCreate
    THEN compress_enlarge(compress_enlarge(
             [ ctx EXCEPT
                 !.data = @ \o (IF ord(ctx.w[1]) < 256
                                THEN BitsLowFirst(0, ctx.numBits)
                                         \o BitsLowFirst(ord(ctx.w[1]), 8)
                                ELSE BitsLowFirst(1, ctx.numBits)
                                         \o BitsLowFirst(ord(ctx.w[1]), 16)),
                 !.dictionaryToCreate = @ \ {ctx.w} ]))
    ELSE compress_enlarge(
             [ ctx EXCEPT
                 !.data = @ \o BitsLowFirst(ctx.dictionary[ctx.w], ctx.numBits) ])

\* the value of a one-element set: x \in {e} names the value of e, which
\* is then computed once
Only(S) == CHOOSE x \in S : TRUE

\* LZString._compress: one iteration of its loop, on character c
compress_char(ctx, c) ==
    Only({ IF known.w \o <<c>> \in DOMAIN known.dictionary
           THEN [ known EXCEPT !.w = @ \o <<c>> ]
           ELSE Only({ [ out EXCEPT
                           !.dictionary = (known.w \o <<c>> :> out.dictSize) @@ @,
                           !.dictSize = @ + 1,
                           !.w = <<c>> ] :
                       out \in { compress_output(known) } }) :
           known \in { IF <<c>> \in DOMAIN ctx.dictionary THEN ctx
                       ELSE [ ctx EXCEPT
                                !.dictionary = (<<c>> :> ctx.dictSize) @@ @,
                                !.dictSize = @ + 1,
                                !.dictionaryToCreate = @ \cup {<<c>>} ] } })

RECURSIVE compress_loop(_, _, _)
compress_loop(s, ii, ctx) ==
    IF ii > Len(s) THEN ctx
    ELSE Only({ compress_loop(s, ii + 1, next) :
                next \in { compress_char(ctx, s[ii]) } })

\* LZString._compress, the bits it writes: the codes of the loop, the code
\* for the last w, the end-of-stream code 2, and the zero bits that flush
\* the last character (six of them when the stream ends on a character)
compress_bits(s) ==
    Only({ Only({ bits \o [ i \in 1..(6 - (Len(bits) % 6)) |-> 0 ] :
                  bits \in { last.data \o BitsLowFirst(2, last.numBits) } }) :
           last \in { Only({ IF ctx.w # <<>> THEN compress_output(ctx) ELSE ctx :
                             ctx \in { compress_loop(s, 1, compress_context) } }) } })

\* LZString._compress with bitsPerChar 6 and keyStrBase64: one character
\* for every six bits, the first bit the highest
compress(s) ==
    Only({ [ k \in 1..(Len(bits) \div 6) |->
               keyStrBase64[32 * bits[6 * k - 5] + 16 * bits[6 * k - 4]
                            + 8 * bits[6 * k - 3] + 4 * bits[6 * k - 2]
                            + 2 * bits[6 * k - 1] + bits[6 * k] + 1] ] :
           bits \in { compress_bits(s) } })

\* lzstring.LZString().compressToBase64
compressToBase64(s) ==
    Only({ res \o CASE Len(res) % 4 = 0 -> <<>>
                    [] Len(res) % 4 = 1 -> <<"=", "=", "=">>
                    [] Len(res) % 4 = 2 -> <<"=", "=">>
                    [] Len(res) % 4 = 3 -> <<"=">> :
           res \in { Only({ compress(input) : input \in {s} }) } })

\* custom_link
custom_link(uri, data) ==
    uri \o <<"?", "z", "=">>
        \o Reverse(Replace(Replace(Replace(compressToBase64(data),
                                           <<"+">>, <<"-">>),
                                   <<"/">>, <<"_">>),
                           <<"=">>, <<>>))

\* no request is sent
NoRequest == [ op |-> "none" ]

\* a variant that asks the registry to find an existing short URL
resolve_shallow_request_find(self) ==
    IF self.link = None
    THEN [ op |-> "POST", existing |-> TRUE, target |-> None,
           data |-> XmlCharRefReplace(self.data),
           longUrl |-> custom_link(self.app, XmlCharRefReplace(self.data)) ]
    ELSE NoRequest

\* a variant that sends its request whether or not the fragment has a link
resolve_shallow_request_always(self) ==
    [ op |-> "POST", existing |-> FALSE, target |-> None,
      data |-> XmlCharRefReplace(self.data),
      longUrl |-> custom_link(self.app, XmlCharRefReplace(self.data)) ]

\* the request Link.resolve_shallow sends: none when the fragment has a link
resolve_shallow_request(self) ==
    IF self.link = None
    THEN [ op |-> "POST", existing |-> FALSE, target |-> None,
           data |-> XmlCharRefReplace(self.data),
           longUrl |-> custom_link(self.app, XmlCharRefReplace(self.data)) ]
    ELSE NoRequest

\* Link.resolve_shallow applied to as[i], given the registry's answer
resolve_shallow(as, i, out) ==
    IF as[i].link = None /\ out.ok
    THEN [ as EXCEPT ![i].link = out.shortUrl ]
    ELSE as

RECURSIVE SubstituteFrom(_, _, _, _)
SubstituteFrom(data, deps, as, k) ==
    IF k > Len(deps) THEN data
    ELSE SubstituteFrom(Replace(data, as[deps[k]].link_name, as[deps[k]].link),
                        deps, as, k + 1)

\* a variant whose loop stops after the first dependency
resolve_data_first_only(self, as) ==
    IF self.dependencies = <<>> THEN XmlCharRefReplace(self.data)
    ELSE Replace(XmlCharRefReplace(self.data),
                 as[self.dependencies[1]].link_name,
                 as[self.dependencies[1]].link)

\* the local data of Link.resolve after its loop over the dependencies
resolve_data(self, as) ==
    SubstituteFrom(XmlCharRefReplace(self.data), self.dependencies, as, 1)

\* str.replace raises TypeError when the link of a dependency is None
resolve_raises(self, as) ==
    \E k \in 1..Len(self.dependencies) : as[self.dependencies[k]].link = None

\* a variant that creates a short URL whether or not the fragment has one
resolve_request_post(self, as) ==
    [ op |-> "POST", existing |-> TRUE, target |-> None,
      data |-> resolve_data(self, as),
      longUrl |-> custom_link(self.app, resolve_data(self, as)) ]

\* a variant whose update carries the text without the substitutions
resolve_request_raw_update(self, as) ==
    IF self.link = None
    THEN [ op |-> "POST", existing |-> TRUE, target |-> None,
           data |-> resolve_data(self, as),
           longUrl |-> custom_link(self.app, resolve_data(self, as)) ]
    ELSE [ op |-> "PATCH", existing |-> FALSE, target |-> self.link,
           data |-> XmlCharRefReplace(self.data),
           longUrl |-> custom_link(self.app, XmlCharRefReplace(self.data)) ]

\* the request Link.resolve sends
resolve_request(self, as) ==
    IF self.link = None
    THEN [ op |-> "POST", existing |-> TRUE, target |-> None,
           data |-> resolve_data(self, as),
           longUrl |-> custom_link(self.app, resolve_data(self, as)) ]
    ELSE [ op |-> "PATCH", existing |-> FALSE, target |-> self.link,
           data |-> resolve_data(self, as),
           longUrl |-> custom_link(self.app, resolve_data(self, as)) ]

\* a variant that sets the flag before it calls the registry
resolve_marks_first(as, i, out) ==
    [ as EXCEPT ![i].link = IF @ = None /\ out.ok THEN out.shortUrl ELSE @,
                ![i].resolved = TRUE ]

\* a variant that also sends its dependencies back to be updated
resolve_resets_dependencies(as, i, out) ==
    IF ~out.ok THEN as
    ELSE [ j \in 1..Len(as) |->
             IF j = i
             THEN [ as[j] EXCEPT !.link = IF @ = None THEN out.shortUrl ELSE @,
                                 !.resolved = TRUE ]
             ELSE IF \E k \in 1..Len(as[i].dependencies) : as[i].dependencies[k] = j
             THEN [ as[j] EXCEPT !.resolved = FALSE ]
             ELSE as[j] ]

\* a variant that marks a fragment resolved only on a later call than the
\* one that gave it its link
resolve_assigns_only(as, i, out) ==
    IF ~out.ok THEN as
    ELSE [ as EXCEPT ![i].link = IF @ = None THEN out.shortUrl ELSE @,
                     ![i].resolved = as[i].link # None ]

\* a variant that substitutes into the fragment's own data
resolve_in_place(as, i, out) ==
    IF ~out.ok THEN as
    ELSE [ as EXCEPT ![i].data = resolve_data(as[i], as),
                     ![i].link = IF @ = None THEN out.shortUrl ELSE @,
                     ![i].resolved = TRUE ]

\* Link.resolve applied to as[i], given the registry's answer: a refused
\* request exits before any assignment
resolve(as, i, out) ==
    IF ~out.ok THEN as
    ELSE [ as EXCEPT ![i].link = IF @ = None THEN out.shortUrl ELSE @,
                     ![i].resolved = TRUE ]

\* a variant whose second test is negated
status_negated(self) ==
    IF self.link = None THEN [ link |-> None, text |-> "creating..." ]
    ELSE IF ~self.resolved THEN [ link |-> self.link, text |-> "done" ]
    ELSE [ link |-> self.link, text |-> "updating..." ]

\* Link.status
status(self) ==
    IF self.link = None THEN [ link |-> None, text |-> "creating..." ]
    ELSE IF self.resolved THEN [ link |-> self.link, text |-> "done" ]
    ELSE [ link |-> self.link, text |-> "updating..." ]

\* Link.color: APPS is not a name of the module (the table is __APPS)
color(self) == "NameError"

(***************************************************************************)
(* The registry (Shlink), as shorten_url and update_short_url see it.      *)
(***************************************************************************)
\* the short URL of a short code (a text, like every URL)
ShortUrl(code) == <<"s", "/">> \o code

\* the short codes whose long URL is url
CodesOf(reg, url) == { c \in DOMAIN reg : reg[c] = url }

\* the next unused short code
FreshCode(reg, cs) == <<cs[Cardinality(DOMAIN reg) + 1]>>

\* the answer any request may get: a status other than 200
Refused(reg) == [ ok |-> FALSE, shortUrl |-> None, registry |-> reg ]

\* shorten_url: the answers a POST /short-urls may get
shorten_url(url, existing, reg, cs) ==
    { Refused(reg) } \cup
    IF existing /\ CodesOf(reg, url) # {}
    THEN { [ ok |-> TRUE, shortUrl |-> ShortUrl(c), registry |-> reg ] :
           c \in CodesOf(reg, url) }
    ELSE { [ ok |-> TRUE, shortUrl |-> ShortUrl(FreshCode(reg, cs)),
             registry |-> (FreshCode(reg, cs) :> url) @@ reg ] }

\* update_short_url: the answers a PATCH /short-urls/{shortCode} may get
update_short_url(short_url, new_url, reg) ==
    { Refused(reg) } \cup
    IF LastSegment(short_url) \in DOMAIN reg
    THEN { [ ok |-> TRUE, shortUrl |-> short_url,
             registry |-> [ reg EXCEPT ![LastSegment(short_url)] = new_url ] ] }
    ELSE {}

\* the answers to a request
Answers(req, reg, cs) ==
    IF req.op = "POST" THEN shorten_url(req.longUrl, req.existing, reg, cs)
    ELSE update_short_url(req.target, req.longUrl, reg)

\* the entry of the call log for a request of fragment i and its answer
CallEntry(by, i, req, out) ==
    [ by |-> by, node |-> i, op |-> req.op, existing |-> req.existing,
      target |-> req.target, data |-> req.data, longUrl |-> req.longUrl,
      ok |-> out.ok, shortUrl |-> out.shortUrl ]

(***************************************************************************)
(* Initial state: a list of Links built with Link.__init__, before         *)
(* link_all_apps is called on it.  The registry is outside the program:    *)
(* it holds nothing, or already holds a short URL for the encoded raw      *)
(* text of the first Link (as an earlier run leaves it).                   *)
(***************************************************************************)
\* the registries a run may start with
InitialRegistries(as, cs) ==
    { <<>>,
      (<<cs[1]>> :> custom_link(as[1].app, XmlCharRefReplace(as[1].data))) }

Init ==
    /\ \E n \in 1..MaxNodes : \E doc \in Docs(n, MaxText) : \E dest \in AppAssignments :
         apps = [ i \in 1..n |-> NewLink(dest[i], NameOf(i), doc[i]) ]
    /\ fast \in BOOLEAN
    /\ quiet \in BOOLEAN
    /\ codes \in CodeOrders
    /\ registry \in InitialRegistries(apps, codes)
    /\ calls = <<>>
    /\ pc = "link"
    /\ idx = 1
    /\ err = "none"

\* link_all_apps: one iteration of its loop
LinkStep ==
    /\ pc = "link"
    /\ apps' = [ apps EXCEPT ![idx] = link_dependencies(apps[idx], apps, idx) ]
    /\ IF idx = Len(apps)
         THEN pc' = "start" /\ idx' = 1
         ELSE pc' = "link" /\ idx' = idx + 1
    /\ UNCHANGED <<fast, quiet, codes, registry, calls, err>>

\* __print_apps: its outcome, "ok" or the exception it raises
print_apps(as, q) ==
    IF ~q /\ Len(as) > 0 THEN color(as[1])
    ELSE IF Len(as) = 0 THEN "ZeroDivisionError"
    ELSE "ok"

RECURSIVE AvailableFrom_no_dependency(_, _)
\* a variant that lists only the unresolved fragments without dependency
AvailableFrom_no_dependency(as, k) ==
    IF k > Len(as) THEN <<>>
    ELSE (IF ~as[k].resolved /\ as[k].dependencies = <<>>
          THEN <<k>> ELSE <<>>)
         \o AvailableFrom_no_dependency(as, k + 1)

\* the fast-mode list "available": the fragments not yet resolved whose
\* dependencies are all resolved, in list order (positions k and later)
RECURSIVE AvailableFrom(_, _)
AvailableFrom(as, k) ==
    IF k > Len(as) THEN <<>>
    ELSE (IF /\ ~as[k].resolved
             /\ \A d \in 1..Len(as[k].dependencies) :
                    as[as[k].dependencies[d]].resolved
          THEN <<k>> ELSE <<>>)
         \o AvailableFrom(as, k + 1)

\* a variant that lists every unresolved fragment, its dependencies
\* resolved or not
Available_any_unresolved(as) ==
    SelectSeq([ k \in 1..Len(as) |-> k ], LAMBDA k : ~as[k].resolved)

\* a variant that lists the ready fragments last first
Available_last_first(as) == Reverse(AvailableFrom(as, 1))

Available(as) == AvailableFrom(as, 1)

\* any(not app.resolved for app in apps)
AnyUnresolved(as) == \E i \in 1..Len(as) : ~as[i].resolved

\* a variant whose two-phase branch goes straight to its second loop
Start_skips_first_loop ==
    /\ pc = "start"
    /\ IF print_apps(apps, quiet) # "ok"
         THEN pc' = "crashed" /\ err' = print_apps(apps, quiet)
         ELSE /\ err' = err
              /\ pc' = IF ~fast THEN "resolve"
                       ELSE IF AnyUnresolved(apps) THEN "fast" ELSE "done"
    /\ idx' = 1
    /\ UNCHANGED <<apps, fast, quiet, codes, registry, calls>>

\* resolve_all_apps, lines 220-221: the first progress display
Start ==
    /\ pc = "start"
    /\ IF print_apps(apps, quiet) # "ok"
         THEN pc' = "crashed" /\ err' = print_apps(apps, quiet)
         ELSE /\ err' = err
              /\ pc' = IF ~fast THEN "shallow"
                       ELSE IF AnyUnresolved(apps) THEN "fast" ELSE "done"
    /\ idx' = 1
    /\ UNCHANGED <<apps, fast, quiet, codes, registry, calls>>

\* resolve_all_apps, lines 238-240: one iteration of the first loop
ShallowStep ==
    /\ pc = "shallow"
    /\ LET req == resolve_shallow_request(apps[idx])
           last == (idx = Len(apps))
       IN IF req = NoRequest
          THEN /\ pc' = (IF last THEN "resolve" ELSE "shallow")
               /\ idx' = (IF last THEN 1 ELSE idx + 1)
               /\ UNCHANGED <<apps, registry, calls, err>>
          ELSE \E out \in Answers(req, registry, codes) :
               /\ calls' = Append(calls, CallEntry("resolve_shallow", idx, req, out))
               /\ registry' = out.registry
               /\ apps' = resolve_shallow(apps, idx, out)
               /\ IF out.ok
                    THEN /\ pc' = (IF last THEN "resolve" ELSE "shallow")
                         /\ idx' = (IF last THEN 1 ELSE idx + 1)
                         /\ err' = err
                    ELSE pc' = "exit" /\ idx' = idx /\ err' = "registry"
    /\ UNCHANGED <<fast, quiet, codes>>

\* app.resolve() for the fragment at position i, called from the fast loop
\* (inFast) or from the second loop of two-phase mode, up to the loop's
\* next test
ResolveAt(i, inFast) ==
    IF resolve_raises(apps[i], apps)
    THEN /\ pc' = "crashed" /\ err' = "TypeError" /\ idx' = idx
         /\ UNCHANGED <<apps, registry, calls>>
    ELSE LET req == resolve_request(apps[i], apps)
         IN \E out \in Answers(req, registry, codes) :
            /\ calls' = Append(calls, CallEntry("resolve", i, req, out))
            /\ registry' = out.registry
            /\ apps' = resolve(apps, i, out)
            /\ IF ~out.ok
                 THEN pc' = "exit" /\ idx' = idx /\ err' = "registry"
                 ELSE /\ err' = err
                      /\ IF inFast
                           THEN /\ pc' = IF AnyUnresolved(apps') THEN "fast" ELSE "done"
                                /\ idx' = idx
                           ELSE /\ pc' = IF idx = Len(apps) THEN "done" ELSE "resolve"
                                /\ idx' = IF idx = Len(apps) THEN idx ELSE idx + 1

\* resolve_all_apps, lines 241-244: one iteration of the second loop
ResolveStep ==
    /\ pc = "resolve"
    /\ ResolveAt(idx, FALSE)
    /\ UNCHANGED <<fast, quiet, codes>>

\* resolve_all_apps, lines 223-236 and 244: one iteration of the fast loop
FastStep ==
    /\ pc = "fast"
    /\ IF Available(apps) = <<>>
         THEN /\ pc' = "exit" /\ err' = "cycle"
              /\ UNCHANGED <<apps, registry, calls, idx>>
         ELSE ResolveAt(Available(apps)[1], TRUE)
    /\ UNCHANGED <<fast, quiet, codes>>

Next == LinkStep \/ Start \/ ShallowStep \/ ResolveStep \/ FastStep

Spec == Init /\ [][Next]_vars

(***************************************************************************)
(* The command line.                                                       *)
(***************************************************************************)
\* __make_desc: APPS is not a name of the module (the table is __APPS)
make_desc == "NameError"

\* __guess_app: APPS is not a name of the module either, whatever the
\* separator
guess_app(separator) == "NameError"

\* __main is entered: nothing is parsed, no Link exists
InitMain ==
    /\ apps = <<>>
    /\ fast \in BOOLEAN
    /\ quiet = FALSE
    /\ codes \in CodeOrders
    /\ registry = <<>>
    /\ calls = <<>>
    /\ pc = "main"
    /\ idx = 1
    /\ err = "none"

\* __main, line 254: the description of the argument parser calls
\* __make_desc, which raises
MainStep ==
    /\ pc = "main"
    /\ pc' = "crashed" /\ err' = make_desc
    /\ UNCHANGED <<apps, fast, quiet, codes, registry, calls, idx>>

SpecMain == InitMain /\ [][MainStep]_vars

(***************************************************************************)
(* A list some of whose fragments were given a link before the call of     *)
(* resolve_all_apps (Link.link is a public attribute): the registry holds  *)
(* those links over the encoding of the raw text, as a first loop of       *)
(* two-phase mode leaves them.                                             *)
(***************************************************************************)
\* the link of fragment i when the fragments of preset hold the first
\* short codes of cs, in list order
PresetLink(preset, i, cs) ==
    ShortUrl(<<cs[Cardinality({ j \in preset : j <= i })]>>)

\* the fragment made by Link.__init__, its link then set when i is in preset
PresetNewLink(app, i, data, preset, cs) ==
    [ NewLink(app, NameOf(i), data) EXCEPT
          !.link = IF i \in preset THEN PresetLink(preset, i, cs) ELSE @ ]

\* the registry that holds the links of the fragments of preset
PresetRegistry(as, preset, cs) ==
    [ c \in { LastSegment(PresetLink(preset, i, cs)) : i \in preset } |->
        LET i == CHOOSE i \in preset : LastSegment(PresetLink(preset, i, cs)) = c
        IN  custom_link(as[i].app, XmlCharRefReplace(as[i].data)) ]

InitPreset ==
    /\ \E n \in 1..MaxNodes : \E doc \in Docs(n, MaxText) :
       \E preset \in (SUBSET (1..n)) \ {{}} : \E cs \in CodeOrders :
         /\ codes = cs
         /\ apps = [ i \in 1..n |->
                       PresetNewLink(<<"https://app.fortuna-events.fr">>, i,
                                     doc[i], preset, cs) ]
         /\ registry = PresetRegistry(apps, preset, cs)
    /\ fast \in BOOLEAN
    /\ quiet \in BOOLEAN
    /\ calls = <<>>
    /\ pc = "link"
    /\ idx = 1
    /\ err = "none"

SpecPreset == InitPreset /\ [][Next]_vars

(***************************************************************************)
(* resolve_all_apps as a function: the runs it can make to its end on a    *)
(* linked list, from a registry that refuses nothing, with quiet = True.   *)
(* A run is the list, the registry and the call log it ends with.          *)
(***************************************************************************)
\* the list as link_all_apps leaves it: no link, nothing resolved
Unresolved(as) ==
    [ i \in 1..Len(as) |-> [ as[i] EXCEPT !.link = None, !.resolved = FALSE ] ]

\* run r after the request req of fragment i, sent by Link.resolve_shallow
\* or Link.resolve, for each answer 200 the registry may give
AfterRequest(r, by, i, req, cs) ==
    { [ apps |-> IF by = "resolve" THEN resolve(r.apps, i, out)
                 ELSE resolve_shallow(r.apps, i, out),
        registry |-> out.registry,
        calls |-> Append(r.calls, CallEntry(by, i, req, out)) ] :
      out \in { o \in Answers(req, r.registry, cs) : o.ok } }

RECURSIVE RunsFrom(_, _, _, _)
\* the completed runs that continue r from the loop at and its position k:
\* the first loop of two-phase mode (lines 238-240), its second loop
\* (lines 241-243), or the fast loop (lines 223-236)
RunsFrom(r, at, k, cs) ==
    IF at = "shallow"
    THEN IF k > Len(r.apps) THEN RunsFrom(r, "resolve", 1, cs)
         ELSE IF resolve_shallow_request(r.apps[k]) = NoRequest
         THEN RunsFrom(r, "shallow", k + 1, cs)
         ELSE UNION { RunsFrom(t, "shallow", k + 1, cs) :
                      t \in AfterRequest(r, "resolve_shallow", k,
                                         resolve_shallow_request(r.apps[k]), cs) }
    ELSE IF at = "resolve"
    THEN IF k > Len(r.apps) THEN { r }
         ELSE IF resolve_raises(r.apps[k], r.apps) THEN {}
         ELSE UNION { RunsFrom(t, "resolve", k + 1, cs) :
                      t \in AfterRequest(r, "resolve", k,
                                         resolve_request(r.apps[k], r.apps), cs) }
    ELSE IF ~AnyUnresolved(r.apps) THEN { r }
         ELSE IF Available(r.apps) = <<>> THEN {}
         ELSE IF resolve_raises(r.apps[Available(r.apps)[1]], r.apps) THEN {}
         ELSE UNION { RunsFrom(t, "fast", k, cs) :
                      t \in AfterRequest(r, "resolve", Available(r.apps)[1],
                                         resolve_request(r.apps[Available(r.apps)[1]],
                                                         r.apps), cs) }

\* resolve_all_apps(as, inFast, quiet=True): its completed runs from
\* registry reg; none when the entry display of line 221 raises (an empty
\* list: ZeroDivisionError)
CompletedRuns(as, reg, cs, inFast) ==
    IF print_apps(as, TRUE) # "ok" THEN {}
    ELSE UNION { RunsFrom(r, IF inFast THEN "fast" ELSE "shallow", 1, cs) :
                 r \in { [ apps |-> as, registry |-> reg, calls |-> <<>> ] } }

(***************************************************************************)
(* Vocabulary of the properties.                                           *)
(***************************************************************************)
Nodes == 1..Len(apps)

\* i depends on j: j is in the dependency list of i
DependsOn(i, j) ==
    \E k \in 1..Len(apps[i].dependencies) : apps[i].dependencies[k] = j

RECURSIVE ReachesWithin(_, _, _)
\* j is reached from i along at most k dependency edges (at least one)
ReachesWithin(i, j, k) ==
    /\ k > 0
    /\ \/ DependsOn(i, j)
       \/ \E m \in Nodes : DependsOn(i, m) /\ ReachesWithin(m, j, k - 1)

\* the dependency graph has a cycle (a self-loop is one)
HasCycle == \E i \in Nodes : ReachesWithin(i, i, Len(apps))

\* link_all_apps has returned
Linked == pc # "link"

\* the run is over: it returned, called sys.exit(1), or raised
Terminated == pc \in {"done", "exit", "crashed"}

\* the registry has answered 200 to every request so far
NoRefusal == \A k \in 1..Len(calls) : calls[k].ok

\* the positions in the call log of the requests Link.resolve sent for i
ResolveCalls(i) ==
    { k \in 1..Len(calls) : calls[k].by = "resolve" /\ calls[k].node = i }

\* the finalized (post-substitution) text of fragment i: the text its
\* last Link.resolve sent to the registry
FinalText(i) ==
    calls[CHOOSE k \in ResolveCalls(i) : \A m \in ResolveCalls(i) : m <= k].data

RECURSIVE ExpectedText(_, _)
\* the raw text of i, encoded, with the names of its first k dependencies
\* replaced, in list order, by the links the dependencies have now
ExpectedText(i, k) ==
    IF k = 0 THEN XmlCharRefReplace(apps[i].data)
    ELSE Replace(ExpectedText(i, k - 1),
                 apps[apps[i].dependencies[k]].link_name,
                 apps[apps[i].dependencies[k]].link)

\* every successful request in the log, up to the last one on each short
\* code, is what the registry holds
RegistryHoldsWrites ==
    \A k \in 1..Len(calls) :
        calls[k].ok =>
            /\ LastSegment(calls[k].shortUrl) \in DOMAIN registry
            /\ (\A m \in (k + 1)..Len(calls) :
                    calls[m].ok => calls[m].shortUrl # calls[k].shortUrl)
               => registry[LastSegment(calls[k].shortUrl)] = calls[k].longUrl

(***************************************************************************)
(* C1                                                                      *)
(***************************************************************************)
\* C1: a two-phase run (fast = False) whose registry never refuses, on any
\* node list and any dependency graph, ends with every node holding a url
\* and resolved = true.
Claim_C1 ==
    (~fast /\ Terminated /\ NoRefusal) =>
        /\ pc = "done"
        /\ \A i \in Nodes : apps[i].link # None /\ apps[i].resolved

\* The same run with quiet = True (the progress display never calls
\* Link.color) does end that way.
TwoPhaseCompletesWhenQuiet ==
    (~fast /\ quiet /\ Terminated /\ NoRefusal) =>
        /\ pc = "done"
        /\ \A i \in Nodes : apps[i].link # None /\ apps[i].resolved

(***************************************************************************)
(* C2                                                                      *)
(***************************************************************************)
\* C2: a fast run on a graph with a cycle, its registry never refusing,
\* never returns: it ends in sys.exit(1) from a scan that finds no ready
\* node while unresolved nodes remain.
Claim_C2 ==
    (fast /\ Linked /\ HasCycle /\ Terminated /\ NoRefusal) =>
        /\ pc = "exit" /\ err = "cycle"
        /\ Available(apps) = <<>>
        /\ AnyUnresolved(apps)

\* With quiet = True the run does end that way.
FastCycleAbortsWhenQuiet ==
    (fast /\ quiet /\ Linked /\ HasCycle /\ Terminated /\ NoRefusal) =>
        /\ pc = "exit" /\ err = "cycle"
        /\ Available(apps) = <<>>
        /\ AnyUnresolved(apps)

\* No request is sent by or after the scan that finds no ready node.
FastAbortSendsNothing ==
    [][(err' = "cycle" \/ err = "cycle") => calls' = calls]_vars

(***************************************************************************)
(* C3                                                                      *)
(***************************************************************************)
\* C3: after a successful resolution in either mode, the symbolic name of
\* a dependency B of A does not occur in the finalized text of A.
Claim_C3 ==
    pc = "done" =>
        \A i \in Nodes : \A j \in Nodes :
            DependsOn(i, j) => ~Contains(FinalText(i), apps[j].link_name)

(***************************************************************************)
(* C4                                                                      *)
(***************************************************************************)
\* the text the last request of Link.resolve for node i carries in the
\* completed run r
TextIn(r, i) ==
    r.calls[CHOOSE k \in 1..Len(r.calls) :
                /\ r.calls[k].by = "resolve" /\ r.calls[k].node = i
                /\ \A m \in (k + 1)..Len(r.calls) :
                       ~(r.calls[m].by = "resolve" /\ r.calls[m].node = i)].data

\* the completed run this state is the end of
ThisRun == [ apps |-> apps, registry |-> registry, calls |-> calls ]

\* the registries this run may have started with: those from which the
\* mode it ran in ends in this state
StartsOfThisRun ==
    { R \in InitialRegistries(apps, codes) :
        ThisRun \in CompletedRuns(Unresolved(apps), R, codes, fast) }

\* the completed runs of the other mode on the same list, started with a
\* registry this run may have started with
RunsOfOtherMode ==
    UNION { CompletedRuns(Unresolved(apps), R, codes, ~fast) :
            R \in StartsOfThisRun }

\* r gave every node the link this run gave it
SameLinks(r) == \A i \in Nodes : r.apps[i].link = apps[i].link

\* r sent, and left in the registry, for every node what this run did
SameTexts(r) ==
    \A i \in Nodes :
        /\ TextIn(r, i) = FinalText(i)
        /\ r.registry[LastSegment(r.apps[i].link)] =
               registry[LastSegment(apps[i].link)]

Thm_C5 ==
    pc = "done" =>
        IF fast
        THEN /\ Len(calls) = Len(apps)
             /\ \A k \in 1..Len(calls) : calls[k].op = "POST"
        ELSE /\ Len(calls) = 2 * Len(apps)
             /\ \A k \in Nodes :
                    /\ calls[k].op = "POST" /\ calls[k].node = k
                    /\ calls[Len(apps) + k].op = "PATCH"
                    /\ calls[Len(apps) + k].node = k

\* a two-phase run of two nodes has finished
W_C5 == pc = "done" /\ ~fast /\ Len(apps) = 2 /\ Len(calls) = 4

(***************************************************************************)
(* C6                                                                      *)
(***************************************************************************)
\* C6 as stated: every POST of Phase 1 passes findIfExists = true and
\* every POST of fast mode passes findIfExists = false.
Claim_C6 ==
    \A k \in 1..Len(calls) :
        calls[k].op = "POST" =>
            /\ calls[k].by = "resolve_shallow" => calls[k].existing
            /\ fast => ~calls[k].existing

\* C6 amended: every POST of Phase 1 passes findIfExists = false (the
\* default of shorten_url) and every POST of fast mode passes
\* findIfExists = true.
Thm_C6 ==
    \A k \in 1..Len(calls) :
        calls[k].op = "POST" =>
            /\ calls[k].by = "resolve_shallow" => ~calls[k].existing
            /\ fast => calls[k].existing

\* Phase 1 has sent a POST
W_C6 ==
    \E k \in 1..Len(calls) :
        calls[k].op = "POST" /\ calls[k].by = "resolve_shallow" /\ calls[k].ok

(***************************************************************************)
(* C7                                                                      *)
(***************************************************************************)
\* C7: a refused request is the last request of the run, which has ended
\* in sys.exit(1); the node whose request was refused has the link it had
\* before (none for a POST, the PATCH's target otherwise) and is not
\* resolved; and the registry still holds what the earlier requests wrote.
Thm_C7 ==
    /\ \A k \in 1..Len(calls) :
           ~calls[k].ok =>
               /\ k = Len(calls)
               /\ pc = "exit" /\ err = "registry"
               /\ apps[calls[k].node].link = calls[k].target
               /\ ~apps[calls[k].node].resolved
    /\ RegistryHoldsWrites

\* a PATCH was refused after two POSTs were accepted
W_C7 ==
    /\ Len(calls) = 3
    /\ ~calls[3].ok /\ calls[3].op = "PATCH"
    /\ Cardinality(DOMAIN registry) = 2

(***************************************************************************)
(* C8                                                                      *)
(***************************************************************************)
\* C8: after the linking pass, for nodes A # B, B is in A.dependencies iff
\* B's name occurs in A's raw text, whichever was created first; A is in
\* its own list only if its name occurs in its own text; every list is in
\* node-list order without duplicates.
Thm_C8 ==
    Linked =>
        \A i \in Nodes :
            /\ \A j \in Nodes :
                   /\ i # j =>
                        (DependsOn(i, j) <=>
                             Contains(apps[i].data, apps[j].link_name))
                   /\ DependsOn(i, i) => Contains(apps[i].data, apps[i].link_name)
            /\ \A k \in 1..Len(apps[i].dependencies) :
                   /\ apps[i].dependencies[k] \in Nodes
                   /\ \A m \in 1..(k - 1) :
                          apps[i].dependencies[m] < apps[i].dependencies[k]

\* the first node depends on itself and on the second, created after it
W_C8 ==
    /\ Linked /\ Len(apps) = 2
    /\ apps[1].dependencies = <<1, 2>>
    /\ apps[2].dependencies = <<1>>

(***************************************************************************)
(* C9                                                                      *)
(***************************************************************************)
\* C9: in every state of a run, the status of a node is "creating..."
\* exactly when it has no link, "updating..." exactly when it has a link
\* and is not resolved, and "done" exactly when it is resolved.
Thm_C9 ==
    \A i \in Nodes :
        /\ status(apps[i]).text = "creating..." <=> apps[i].link = None
        /\ status(apps[i]).text = "updating..." <=>
               (apps[i].link # None /\ ~apps[i].resolved)
        /\ status(apps[i]).text = "done" <=> apps[i].resolved
        /\ status(apps[i]).link = apps[i].link

\* Phase 2 is under way: one node is done, the next is updating
W_C9 ==
    /\ Len(apps) = 2
    /\ status(apps[1]).text = "done"
    /\ status(apps[2]).text = "updating..."

(***************************************************************************)
(* C10                                                                     *)
(***************************************************************************)
\* C10: no step of a run sets the resolved flag of a node back to false.
Thm_C10 ==
    [][\A i \in Nodes : apps[i].resolved => apps'[i].resolved]_vars

\* a node is resolved and the run goes on
W_C10 ==
    /\ pc \in {"resolve", "fast"}
    /\ \E i \in Nodes : apps[i].resolved
    /\ \E i \in Nodes : ~apps[i].resolved

(***************************************************************************)
(* C11                                                                     *)
(***************************************************************************)
\* C11: in either mode a step changes the link of a node only from None
\* to a url, so that no link is assigned more than once (two-phase: at
\* most twice); in a fast run the step that assigns the link of a node is
\* the step that marks it resolved, and no other step marks it.
Thm_C11 ==
    [][\A i \in Nodes :
         /\ apps'[i].link # apps[i].link =>
                apps[i].link = None /\ apps'[i].link # None
         /\ fast => (apps'[i].link # apps[i].link <=>
                         (apps'[i].resolved /\ ~apps[i].resolved))]_vars

\* a fast run has given one node its link, marked it resolved, and goes on
W_C11 ==
    /\ fast /\ pc = "fast"
    /\ \E i \in Nodes : apps[i].link # None /\ apps[i].resolved
    /\ \E k \in 1..Len(calls) : calls[k].op = "POST" /\ calls[k].ok

(***************************************************************************)
(* C12                                                                     *)
(***************************************************************************)
RECURSIVE NamesReplacedFrom(_, _, _)
\* text from position p on, every occurrence of the name of a dependency
\* of i replaced by the link that dependency has, the rest copied
NamesReplacedFrom(i, text, p) ==
    IF p > Len(text) THEN <<>>
    ELSE IF \E j \in Nodes : DependsOn(i, j) /\ StartsAt(text, apps[j].link_name, p)
         THEN LET j == CHOOSE j \in Nodes :
                           DependsOn(i, j) /\ StartsAt(text, apps[j].link_name, p)
              IN  apps[j].link
                      \o NamesReplacedFrom(i, text, p + Len(apps[j].link_name))
         ELSE <<text[p]>> \o NamesReplacedFrom(i, text, p + 1)

\* the raw text of i, encoded, with every dependency's name replaced by
\* that dependency's link
NamesReplaced(i) == NamesReplacedFrom(i, XmlCharRefReplace(apps[i].data), 1)

\* C12: whenever a node is resolved, the registry maps the node's link to
\* the encoding of its raw text with every dependency's symbolic name
\* replaced by that dependency's link.
Claim_C12 ==
    \A i \in Nodes :
        apps[i].resolved =>
            /\ apps[i].link # None
            /\ LastSegment(apps[i].link) \in DOMAIN registry
            /\ registry[LastSegment(apps[i].link)] =
                   custom_link(apps[i].app, NamesReplaced(i))

\* What does hold: a node is resolved only after a request of its
\* Link.resolve has succeeded, and the registry then maps its link to the
\* encoding of the text that request sent, which is the text the chained
\* replacements of Link.resolve produce.
ResolvedAfterFinalWrite ==
    \A i \in Nodes :
        apps[i].resolved =>
            /\ \E k \in ResolveCalls(i) : calls[k].ok
            /\ apps[i].link # None
            /\ LastSegment(apps[i].link) \in DOMAIN registry
            /\ registry[LastSegment(apps[i].link)] =
                   custom_link(apps[i].app, FinalText(i))
            /\ FinalText(i) = ExpectedText(i, Len(apps[i].dependencies))

(***************************************************************************)
(* C13                                                                     *)
(***************************************************************************)
\* C13: in a two-phase run (every node starting without a link) the call
\* log is, in this order: one POST per node, in node order, sent by
\* Link.resolve_shallow over the encoding of the node's raw text; then one
\* PATCH per node, in node order, sent by Link.resolve.  A PATCH is in the
\* log only when every POST of the first loop has returned 200 and every
\* node holds the link it returned, so that every link the second loop
\* reads is there; a run that returns has sent all of them.
Thm_C13 ==
    ~fast =>
        /\ Len(calls) <= 2 * Len(apps)
        /\ \A k \in 1..Len(calls) :
               IF k <= Len(apps)
               THEN /\ calls[k].by = "resolve_shallow" /\ calls[k].node = k
                    /\ calls[k].op = "POST"
                    /\ calls[k].data = XmlCharRefReplace(apps[k].data)
                    /\ calls[k].longUrl = custom_link(apps[k].app, calls[k].data)
               ELSE /\ calls[k].by = "resolve" /\ calls[k].node = k - Len(apps)
                    /\ calls[k].op = "PATCH"
                    /\ calls[k].target = apps[k - Len(apps)].link
                    /\ \A j \in Nodes :
                           calls[j].ok /\ apps[j].link = calls[j].shortUrl
                                       /\ apps[j].link # None
        /\ pc = "resolve" => (Len(calls) = Len(apps) + idx - 1 /\ NoRefusal)
        /\ pc = "done" => Len(calls) = 2 * Len(apps)
        /\ err # "TypeError"

\* a two-phase run of two nodes has returned, the second loop having read
\* the link of a dependency that comes later in the list
W_C13 ==
    /\ ~fast /\ pc = "done" /\ Len(apps) = 2
    /\ DependsOn(1, 2)
    /\ calls[3].op = "PATCH" /\ Contains(calls[3].data, apps[2].link)

(***************************************************************************)
(* C14                                                                     *)
(***************************************************************************)
\* node i is ready: not resolved, every dependency resolved
Ready(i) ==
    /\ ~apps[i].resolved
    /\ \A j \in Nodes : DependsOn(i, j) => apps[j].resolved

\* C14: every step of the fast loop that calls the registry does so for
\* the first node, in list order, that is not resolved and whose
\* dependencies are all resolved, and no other node becomes resolved;
\* hence a resolved node has all its dependencies resolved, each by an
\* earlier call than its own, and the text it sent holds the links its
\* dependencies end with.
Thm_C14 ==
    [][(fast /\ pc = "fast") =>
         /\ calls' # calls =>
              LET i == calls'[Len(calls')].node
              IN  /\ Ready(i)
                  /\ \A m \in 1..(i - 1) : ~Ready(m)
                  /\ \A m \in Nodes :
                         (apps'[m].resolved /\ ~apps[m].resolved) => m = i
         /\ calls' = calls => apps' = apps
         /\ \A i \in Nodes : \A j \in Nodes :
                (apps'[i].resolved /\ DependsOn(i, j)) =>
                    /\ apps'[j].resolved /\ apps'[j].link # None
                    /\ \E k \in 1..Len(calls') : \E m \in 1..Len(calls') :
                           /\ m < k
                           /\ calls'[m].node = j /\ calls'[k].node = i
                    /\ \A k \in 1..Len(calls') :
                           calls'[k].node = i =>
                               calls'[k].data =
                                   SubstituteFrom(XmlCharRefReplace(apps'[i].data),
                                                  apps'[i].dependencies, apps', 1)
       ]_vars

\* a fast run has resolved the second node first, the first node depending
\* on it, and then the first node with the second one's link in its text
W_C14 ==
    /\ fast /\ pc = "done" /\ Len(apps) = 2
    /\ DependsOn(1, 2)
    /\ calls[1].node = 2 /\ calls[2].node = 1
    /\ Contains(calls[2].data, apps[2].link)

(***************************************************************************)
(* C15                                                                     *)
(***************************************************************************)
\* the requests in the log that Link.resolve sent as a PATCH for node i
Updates(i) ==
    { k \in 1..Len(calls) :
        calls[k].by = "resolve" /\ calls[k].node = i /\ calls[k].op = "PATCH" }

\* C15: in a two-phase run, the first loop leaves a node that has a link
\* alone (no request, same link), and no step changes a link a node has;
\* the second loop sends, for each node in turn, a PATCH on the node's link
\* with the dependencies' links substituted into its text, and marks the
\* node resolved when the registry accepts it; a run that returns has sent
\* exactly one PATCH for every node.
Thm_C15 ==
    [][~fast =>
         /\ (pc = "shallow" /\ apps[idx].link # None) =>
                calls' = calls /\ apps' = apps /\ registry' = registry
         /\ \A i \in Nodes :
                apps[i].link # None => apps'[i].link = apps[i].link
         /\ (pc = "resolve" /\ calls' # calls) =>
                LET c == calls'[Len(calls')]
                IN  /\ c.by = "resolve" /\ c.node = idx /\ c.op = "PATCH"
                    /\ c.target = apps[idx].link
                    /\ c.data = ExpectedText(idx, Len(apps[idx].dependencies))
                    /\ c.longUrl = custom_link(apps[idx].app, c.data)
                    /\ c.ok => (apps'[idx].resolved
                                /\ registry'[LastSegment(c.target)] = c.longUrl)
         /\ pc' = "done" =>
                \A i \in Nodes :
                    (Cardinality(Updates(i)) = 1 /\ apps[i].resolved)'
       ]_vars

\* a two-phase run has returned; its first loop sent nothing for a node
\* that had a link, and its second loop updated that link with the link
\* of a dependency in the text
W_C15 ==
    /\ ~fast /\ pc = "done"
    /\ \E i \in Nodes :
           /\ \A k \in 1..Len(calls) :
                  calls[k].node = i => calls[k].by # "resolve_shallow"
           /\ \E j \in Nodes : j # i /\ DependsOn(i, j)
           /\ \E k \in Updates(i) :
                  calls[k].target = apps[i].link /\ calls[k].ok
           /\ apps[i].resolved

(***************************************************************************)
(* C16                                                                     *)
(***************************************************************************)
\* C16: no step of resolve_all_apps changes the dependency list, the raw
\* text, the name or the destination of any node; a step that calls the
\* registry for a node changes at most that node's link and resolved
\* flag, and a step that calls nothing changes no node.
Thm_C16 ==
    [][Linked =>
         /\ \A i \in Nodes :
                /\ apps'[i].dependencies = apps[i].dependencies
                /\ apps'[i].data = apps[i].data
                /\ apps'[i].link_name = apps[i].link_name
                /\ apps'[i].app = apps[i].app
         /\ Len(apps') = Len(apps)
         /\ calls' = calls => apps' = apps
         /\ calls' # calls =>
                \A m \in Nodes :
                    m # calls'[Len(calls')].node => apps'[m] = apps[m]
       ]_vars

\* Link.resolve has sent a text that differs from the node's encoded raw
\* text, its dependencies' links substituted, and marked the node resolved
W_C16 ==
    \E k \in 1..Len(calls) :
        /\ calls[k].by = "resolve" /\ calls[k].ok
        /\ apps[calls[k].node].resolved
        /\ apps[calls[k].node].dependencies # <<>>
        /\ calls[k].data # XmlCharRefReplace(apps[calls[k].node].data)

(***************************************************************************)
(* C17                                                                     *)
(***************************************************************************)
\* the number of resolved nodes
ResolvedCount == Cardinality({ i \in Nodes : apps[i].resolved })

\* C17: a fast run whose registry never refuses makes at most N calls of
\* Link.resolve, one per iteration, each marking one more node resolved;
\* once over, it has either returned with every node resolved, or ended
\* in the cycle abort on a graph that has a cycle; on a graph with no
\* cycle it has returned with every node resolved.
Claim_C17 ==
    (fast /\ Linked /\ NoRefusal) =>
        /\ Len(calls) <= Len(apps) /\ ResolvedCount = Len(calls)
        /\ Terminated =>
               \/ pc = "done" /\ \A i \in Nodes : apps[i].resolved
               \/ pc = "exit" /\ err = "cycle" /\ HasCycle
        /\ (Terminated /\ ~HasCycle) =>
               (pc = "done" /\ \A i \in Nodes : apps[i].resolved)

\* With quiet = True the run does behave that way.
FastTerminatesWhenQuiet ==
    (fast /\ quiet /\ Linked /\ NoRefusal) =>
        /\ Len(calls) <= Len(apps) /\ ResolvedCount = Len(calls)
        /\ Terminated =>
               \/ pc = "done" /\ \A i \in Nodes : apps[i].resolved
               \/ pc = "exit" /\ err = "cycle" /\ HasCycle
        /\ (Terminated /\ ~HasCycle) =>
               (pc = "done" /\ \A i \in Nodes : apps[i].resolved)

\* Every iteration of the fast loop that the registry does not refuse
\* marks exactly one more node resolved, or is the cycle abort.
FastIterationResolvesOne ==
    [][(pc = "fast" /\ NoRefusal') =>
         \/ pc' = "exit" /\ err' = "cycle" /\ apps' = apps
         \/ /\ ResolvedCount' = ResolvedCount + 1
            /\ \A i \in Nodes : apps[i].resolved => apps'[i].resolved]_vars

(***************************************************************************)
(* C18                                                                     *)
(***************************************************************************)
\* C18: in every state of a run of either mode that starts from nodes
\* without link and not resolved, a resolved node has a link, and no call
\* of Link.resolve reads the link of a dependency that has none: the call
\* about to be made does not, and none has raised the TypeError of
\* str.replace on None.
Thm_C18 ==
    /\ \A i \in Nodes : apps[i].resolved => apps[i].link # None
    /\ err # "TypeError"
    /\ pc = "resolve" => ~resolve_raises(apps[idx], apps)
    /\ (pc = "fast" /\ \E i \in Nodes : Ready(i)) =>
           LET i == CHOOSE i \in Nodes : Ready(i) /\ \A m \in 1..(i - 1) : ~Ready(m)
           IN  \A j \in Nodes : DependsOn(i, j) => apps[j].link # None
    /\ \A k \in 1..Len(calls) :
           calls[k].by = "resolve" => ~Contains(calls[k].data, None)

\* the second loop of a two-phase run has resolved a node with the link of
\* a dependency that is not resolved yet
W_C18 ==
    /\ ~fast /\ pc = "resolve"
    /\ \E i \in Nodes : \E j \in Nodes :
           /\ apps[i].resolved /\ apps[i].link # None
           /\ DependsOn(i, j) /\ ~apps[j].resolved /\ apps[j].link # None
           /\ Contains(FinalText(i), apps[j].link)

(***************************************************************************)
(* C19                                                                     *)
(***************************************************************************)
\* a cycle is reached from i along dependency edges: i is on one, or
\* depends, directly or transitively, on a node that is
ReachesCycle(i) ==
    \E j \in Nodes :
        /\ j = i \/ ReachesWithin(i, j, Len(apps))
        /\ ReachesWithin(j, j, Len(apps))

\* C19: when a fast run ends in the cycle abort, the resolved nodes are
\* exactly the nodes from which no cycle is reached, each of them holding
\* a link the registry maps to the encoding of the text it sent; every
\* node on a cycle or depending on one has no link and is not resolved.
Thm_C19 ==
    (fast /\ pc = "exit" /\ err = "cycle") =>
        \A i \in Nodes :
            /\ apps[i].resolved <=> ~ReachesCycle(i)
            /\ apps[i].resolved =>
                   /\ apps[i].link # None
                   /\ LastSegment(apps[i].link) \in DOMAIN registry
                   /\ registry[LastSegment(apps[i].link)] =
                          custom_link(apps[i].app, FinalText(i))
            /\ ReachesCycle(i) => (apps[i].link = None /\ ~apps[i].resolved)

\* a fast run has ended in the cycle abort after it resolved a node, a
\* node that depends on the cycle left behind
W_C19 ==
    /\ fast /\ pc = "exit" /\ err = "cycle"
    /\ \E i \in Nodes : apps[i].resolved /\ apps[i].link # None
    /\ \E i \in Nodes : ~apps[i].resolved /\ ReachesCycle(i)
====
